---- MODULE Spec2Model ----
(***************************************************************************)
(* Model of the account sync engine of src/bridge/jsHelpers.js:            *)
(*   mergeOps          - merge of newly fetched operations into a history  *)
(*   makeSync          - one sync run producing an account updater         *)
(*   makeScanAccounts  - account discovery against a device                *)
(* and of the solana transaction preparer (js-prepareTransaction):         *)
(*   prepareTransaction - derivation of the command descriptor of a draft  *)
(***************************************************************************)
EXTENDS Integers, Sequences, FiniteSets, TLC

VARIABLES
    \* ---- mergeOps call under test
    mExisting,      \* argument `existing`
    mFetched,       \* argument `newFetched`
    mResult,        \* value returned by mergeOps(existing, newFetched)
    mAgain,         \* value returned by mergeOps(mResult, newFetched)
    mPc,            \* "start" | "merged" | "remerged"
    \* ---- makeSync
    account,        \* the caller's in-memory account
    syncPc,         \* "idle" | "fetching" | "completed" | "errored"
    syncInitial,    \* `initial` of sync(initial, syncConfig) while main() runs
    updater,        \* the updater handed to o.next, until the caller applies it
    nexts,          \* number of o.next calls of the current sync run
    inFlightEdits,  \* pending operations added locally during the fetch
    \* ---- makeScanAccounts
    scanPc,         \* position of main()
    transport,      \* "none" | "open" | "closed"
    finished,       \* the cancellation flag
    derivationsCache,
    modeIdx,        \* position in derivationModes
    mode,           \* properties of the current derivation mode
    index,          \* account index of the inner loop
    emptyCount,     \* (mode, index, emptyCount live for one mode: they are
                    \*  reset when the iteration of the mode ends)
    events,         \* "discovered" events passed to o.next
    probed,         \* accounts whose shape was requested, in order, each
                    \* with what stepAccount made of it
    outcome,        \* "none" | "complete" | "error" | "cancelled"
    \* ---- prepareTransaction call under test
    pAccount,       \* argument `mainAccount`
    pTx,            \* argument `tx`, the draft
    pApi,           \* what the chain answers through `api`
    pResult,        \* the command descriptor derived, or the rejection
    pPrepared,      \* the transaction returned: <<>> until prepare resolves
    pPc,            \* "idle" | "draft" | "prepared" | "rejected"
    \* ---- stake accounts of one owner over preparations and syncs
    sStakes,        \* account.solanaResources.stakes, as of the last sync
    sChain,         \* addresses of the owner's stake accounts on the chain
    sPrepared       \* the stake-opening commands prepared so far

mergeVars == <<mExisting, mFetched, mResult, mAgain, mPc>>
syncVars  == <<account, syncPc, syncInitial, updater, nexts, inFlightEdits>>
scanVars  == <<scanPc, transport, finished, derivationsCache, modeIdx, mode,
               index, emptyCount, events, probed, outcome>>
prepVars  == <<pAccount, pTx, pApi, pResult, pPrepared, pPc>>
stakeVars == <<sStakes, sChain, sPrepared>>
vars == <<mergeVars, syncVars, scanVars, prepVars, stakeVars>>

\* ---------------------------------------------------------------- bounds
\* operation ids are 1..MaxId
MaxId == 3
\* operation dates are 1..MaxDate
MaxDate == 2
\* length of the existing list of a mergeOps call
MaxExisting == 2
\* length of the fetched list of a mergeOps call
MaxFetched == 2
None == "none"

\* An Operation, reduced to the two fields mergeOps reads.
Operation == [id : 1..MaxId, date : 1..MaxDate]

SeqsUpTo(S, n) == UNION { [1..k -> S] : k \in 0..n }

Ids(ops) == { ops[i].id : i \in DOMAIN ops }

\* sorted newer to older
IsSortedDesc(ops) ==
    \A i \in DOMAIN ops : \A j \in DOMAIN ops :
        i < j => ops[i].date >= ops[j].date

IsStrictlyDesc(ops) ==
    \A i \in DOMAIN ops : \A j \in DOMAIN ops :
        i < j => ops[i].date > ops[j].date

\* deduped by id
IsDeduped(ops) ==
    \A i \in DOMAIN ops : \A j \in DOMAIN ops :
        i # j => ops[i].id # ops[j].id

\* The lists mergeOps accepts as `existing`: sorted (newer to older), deduped.
ExistingLists(n) ==
    { s \in SeqsUpTo(Operation, n) : IsSortedDesc(s) /\ IsDeduped(s) }

\* ---------------------------------------------------------------- mergeOps
\* const existingIds = {}; for (let o of existing) existingIds[o.id] = o;
existingIds(existing) == Ids(existing)

\* Array.prototype.sort((a, b) => b.date - a.date): a stable sort, newer
\* first; an element goes after the elements of equal date that precede it.
RECURSIVE insertByDate(_, _)
insertByDate(sorted, o) ==
    IF sorted = <<>> THEN <<o>>
    ELSE IF Head(sorted).date >= o.date
         THEN <<Head(sorted)>> \o insertByDate(Tail(sorted), o)
         ELSE <<o>> \o sorted

RECURSIVE sortByDateDesc(_)
sortByDateDesc(ops) ==
    IF ops = <<>> THEN <<>>
    ELSE insertByDate(sortByDateDesc(SubSeq(ops, 1, Len(ops) - 1)),
                      ops[Len(ops)])

\* newFetched.filter((o) => !existingIds[o.id]).sort(...)
newOpsOf(existing, newFetched) ==
    sortByDateDesc(SelectSeq(newFetched,
                             LAMBDA o : o.id \notin existingIds(existing)))

\* for (let o of existing) {
\*   while (newOps.length > 0 && newOps[0].date > o.date) all.push(newOps.shift());
\*   all.push(o);
\* }
\* return all;
RECURSIVE mergeLoop(_, _, _)
mergeLoop(existing, newOps, all) ==
    IF existing = <<>> THEN all
    ELSE LET o == Head(existing) IN
         IF Len(newOps) > 0 /\ newOps[1].date > o.date
         THEN mergeLoop(existing, Tail(newOps), Append(all, Head(newOps)))
         ELSE mergeLoop(Tail(existing), newOps, Append(all, o))

\* mergeOps without the filter on the existing ids.
mergeOps_nofilter(existing, newFetched) ==
    IF Len(newFetched) = 0 THEN [ref |-> "existing", ops |-> existing]
    ELSE LET newOps == sortByDateDesc(newFetched) IN
         IF Len(existing) = 0 THEN [ref |-> "newOps", ops |-> newOps]
         ELSE [ref |-> "all", ops |-> mergeLoop(existing, newOps, <<>>)]

\* mergeOps without the two short-circuits that return `existing`.
mergeOps_copy(existing, newFetched) ==
    LET newOps == newOpsOf(existing, newFetched) IN
    IF Len(existing) = 0 THEN [ref |-> "newOps", ops |-> newOps]
    ELSE [ref |-> "all", ops |-> mergeLoop(existing, newOps, <<>>)]

\* The returned array: `ref` names the array object that is returned
\* (the argument `existing`, the local `newOps` or the local `all`),
\* `ops` is its content.
mergeOps(existing, newFetched) ==
    IF Len(newFetched) = 0 THEN [ref |-> "existing", ops |-> existing]
    ELSE LET newOps == newOpsOf(existing, newFetched) IN
         IF Len(newOps) = 0 THEN [ref |-> "existing", ops |-> existing]
         ELSE IF Len(existing) = 0 THEN [ref |-> "newOps", ops |-> newOps]
         ELSE [ref |-> "all", ops |-> mergeLoop(existing, newOps, <<>>)]

\* ------------------------------------------------- specification SpecMerge
\* One call mergeOps(existing, newFetched), then a second call that merges
\* the same fetched list into the result.
MergeCall ==
    /\ mPc = "start"
    /\ mResult' = mergeOps(mExisting, mFetched)
    /\ mPc' = "merged"
    /\ UNCHANGED <<mExisting, mFetched, mAgain>>

MergeAgain ==
    /\ mPc = "merged"
    /\ mAgain' = mergeOps(mResult.ops, mFetched)
    /\ mPc' = "remerged"
    /\ UNCHANGED <<mExisting, mFetched, mResult>>

NoResult == [ref |-> None, ops |-> <<>>]

MergeIdle ==
    /\ mExisting = <<>>
    /\ mFetched = <<>>
    /\ mResult = NoResult
    /\ mAgain = NoResult
    /\ mPc = "start"

SyncIdle ==
    /\ account = [id |-> None, freshAddress |-> "addr",
                  operations |-> <<>>, pendingOperations |-> <<>>]
    /\ syncPc = "idle"
    /\ syncInitial = None
    /\ updater = <<>>
    /\ nexts = 0
    /\ inFlightEdits = {}

ScanIdle ==
    /\ scanPc = "init"
    /\ transport = None
    /\ finished = FALSE
    /\ derivationsCache = {}
    /\ modeIdx = 0
    /\ mode = None
    /\ index = 0
    /\ emptyCount = 0
    /\ events = <<>>
    /\ probed = <<>>
    /\ outcome = None

PrepareIdle ==
    /\ pAccount = None
    /\ pTx = None
    /\ pApi = None
    /\ pResult = None
    /\ pPrepared = <<>>
    /\ pPc = "idle"

StakeIdle ==
    /\ sStakes = <<>>
    /\ sChain = {}
    /\ sPrepared = <<>>

InitMerge ==
    /\ mExisting \in ExistingLists(MaxExisting)
    /\ mFetched \in SeqsUpTo(Operation, MaxFetched)
    /\ mResult = NoResult
    /\ mAgain = NoResult
    /\ mPc = "start"
    /\ SyncIdle
    /\ ScanIdle
    /\ PrepareIdle
    /\ StakeIdle

NextMerge ==
    \/ MergeCall /\ UNCHANGED <<syncVars, scanVars, prepVars, stakeVars>>
    \/ MergeAgain /\ UNCHANGED <<syncVars, scanVars, prepVars, stakeVars>>

SpecMerge == InitMerge /\ [][NextMerge]_vars

\* ---------------------------------------------------------------- makeSync
\* operations in one fetched shape
MaxShapeOps == 1
\* ids of the operations a sync sees are 1..SyncMaxId
SyncMaxId == 2
\* their dates are 1..SyncMaxDate
SyncMaxDate == 2

SyncOperation == [id : 1..SyncMaxId, date : 1..SyncMaxDate]

\* A fetched shape, reduced to its operations: a list, not sorted and not
\* deduped. A shape without operations is the shape with the empty list
\* (shape.operations || []).
Shapes == [operations : SeqsUpTo(SyncOperation, MaxShapeOps)]

\* `js:2:${initial.currency.id}:${initial.freshAddress}:${initial.derivationMode}`
accountIdOf(initial) == <<"js:2", initial.freshAddress>>

\* The retention predicate of ../account: a pending operation is kept until
\* the account's history holds the confirmed operation of the same id.
shouldRetainPendingOperation(a, op) ==
    \A i \in DOMAIN a.operations : a.operations[i].id # op.id

\* postSync, a collaborator hook: by default (_, a) => a
postSync(initial, synced) == synced

\* The updater with the fetched operations taken as they are.
AccountUpdater_shapeOps(initial, shape, a) ==
    postSync(a, [a EXCEPT
        !.id = accountIdOf(initial),
        !.operations = shape.operations,
        !.pendingOperations =
            SelectSeq(a.pendingOperations,
                      LAMBDA op : shouldRetainPendingOperation(a, op))])

\* The updater computed from the account captured when the sync started.
AccountUpdater_stale(initial, shape, a) ==
    postSync(a, [initial EXCEPT
        !.id = accountIdOf(initial),
        !.operations = mergeOps(initial.operations, shape.operations).ops,
        !.pendingOperations =
            SelectSeq(initial.pendingOperations,
                      LAMBDA op : shouldRetainPendingOperation(initial, op))])

\* The function handed to o.next: (a) => postSync(a, {...a, id, ..., ...shape,
\* operations, pendingOperations}), closed over `initial` and `shape`.
AccountUpdater(initial, shape, a) ==
    LET operations == mergeOps(a.operations, shape.operations).ops
    IN postSync(a, [a EXCEPT
        !.id = accountIdOf(initial),
        !.operations = operations,
        !.pendingOperations =
            SelectSeq(a.pendingOperations,
                      LAMBDA op : shouldRetainPendingOperation(a, op))])

\* sync(initial, syncConfig) is subscribed: main() runs up to the await of
\* getAccountShape.
SyncStart ==
    /\ syncPc \in {"idle", "completed", "errored"}
    /\ updater = <<>>
    /\ syncInitial' = account
    /\ syncPc' = "fetching"
    /\ nexts' = 0
    /\ inFlightEdits' = {}
    /\ UNCHANGED <<account, updater>>

\* The catch block with an updater emitted before the error.
SyncFetchFail_partial ==
    /\ syncPc = "fetching"
    /\ \E shape \in Shapes :
          updater' = <<[initial |-> syncInitial, shape |-> shape]>>
    /\ nexts' = nexts + 1
    /\ syncPc' = "errored"
    /\ syncInitial' = None
    /\ UNCHANGED <<account, inFlightEdits>>

\* getAccountShape resolves: o.next(updater); o.complete().
SyncFetchOk ==
    /\ syncPc = "fetching"
    /\ \E shape \in Shapes :
          updater' = <<[initial |-> syncInitial, shape |-> shape]>>
    /\ nexts' = nexts + 1
    /\ syncPc' = "completed"
    /\ syncInitial' = None
    /\ UNCHANGED <<account, inFlightEdits>>

\* getAccountShape rejects: catch (e) { o.error(e) }.
SyncFetchFail ==
    /\ syncPc = "fetching"
    /\ syncPc' = "errored"
    /\ syncInitial' = None
    /\ UNCHANGED <<account, updater, nexts, inFlightEdits>>

\* The caller applies the updater it received to its current account.
ApplyUpdater ==
    /\ updater # <<>>
    /\ account' = AccountUpdater(updater[1].initial, updater[1].shape, account)
    /\ updater' = <<>>
    /\ UNCHANGED <<syncPc, syncInitial, nexts, inFlightEdits>>

\* A local edit: a broadcast adds a pending operation to the account. It is
\* dated now and its id is new: no confirmed operation known so far
\* carries it.
AddPendingOperation ==
    /\ \E op \in SyncOperation :
          /\ op.date = SyncMaxDate
          /\ op.id \notin Ids(account.pendingOperations)
          /\ op.id \notin Ids(account.operations)
          /\ \A i \in DOMAIN updater :
                op.id \notin Ids(updater[i].shape.operations)
          /\ account' = [account EXCEPT
                !.pendingOperations = Append(@, op)]
          /\ inFlightEdits' =
                IF syncPc = "fetching" \/ updater # <<>>
                THEN inFlightEdits \cup {op} ELSE inFlightEdits
    /\ UNCHANGED <<syncPc, syncInitial, updater, nexts>>

InitSync ==
    /\ MergeIdle
    /\ ScanIdle
    /\ PrepareIdle
    /\ StakeIdle
    /\ account = [id |-> <<"js:2", "addr">>, freshAddress |-> "addr",
                  operations |-> <<>>, pendingOperations |-> <<>>]
    /\ syncPc = "idle"
    /\ syncInitial = None
    /\ updater = <<>>
    /\ nexts = 0
    /\ inFlightEdits = {}

NextSync ==
    \/ SyncStart /\ UNCHANGED <<mergeVars, scanVars, prepVars, stakeVars>>
    \/ SyncFetchOk /\ UNCHANGED <<mergeVars, scanVars, prepVars, stakeVars>>
    \/ SyncFetchFail /\ UNCHANGED <<mergeVars, scanVars, prepVars, stakeVars>>
    \/ ApplyUpdater /\ UNCHANGED <<mergeVars, scanVars, prepVars, stakeVars>>
    \/ AddPendingOperation /\ UNCHANGED <<mergeVars, scanVars, prepVars, stakeVars>>

SpecSync == InitSync /\ [][NextSync]_vars

\* -------------------------------------------------------- makeScanAccounts
\* derivation modes of the currency
NModes == 2
\* accounts probed (shapes requested) in one scan
MaxProbes == 4
\* values of getMandatoryEmptyAccountSkip are 0..MaxSkip
MaxSkip == 1
\* const stopAt = isIterableDerivationMode(derivationMode) ? 255 : 1
StopAtIterable == 255

\* What ../derivation and ../account answer for a derivation mode:
\* the seed identifier path, the derivation scheme, isIterableDerivationMode,
\* getDerivationModeStartsAt, getMandatoryEmptyAccountSkip,
\* shouldShowNewAccount and the indices derivationModeSupportsIndex refuses.
ModeConfigs ==
    [seedPath : 1..2, scheme : 1..2, iterable : BOOLEAN, startsAt : 0..1,
     skip : 0..MaxSkip, showNewAccount : BOOLEAN,
     unsupported : {{}, {0}}]

stopAtOf(cfg) == IF cfg.iterable THEN StopAtIterable ELSE 1

seedPathOf(cfg) == <<"seed", cfg.seedPath>>
freshAddressPathOf(cfg, i) == <<"account", cfg.scheme, i>>

\* Paths and schemes are numbered in the order the scan meets them: a mode
\* has a seed path (a scheme) met before or the next new one.
InOrderOfUse(cfg) ==
    /\ cfg.seedPath <= 1 + Cardinality({ p \in derivationsCache : p[1] = "seed" })
    /\ cfg.scheme <= 1 + Cardinality({ p[2] : p \in { q \in derivationsCache :
                                                       q[1] = "account" } })

\* The record of a call of stepAccount: the mode and index probed, whether
\* the mode shows new accounts, and the account built ("pending" until
\* getAccountShape has resolved into an account, then "empty" or "used").
Probe(m, i, cfg) ==
    [mode |-> m, index |-> i, show |-> cfg.showNewAccount, res |-> "pending"]

\* emits the accounts with operations only
shouldEmit_usedOnly(isEmpty, showNewAccount) == ~isEmpty

\* if (!isEmpty || showNewAccount) o.next({type: "discovered", account})
shouldEmit(isEmpty, showNewAccount) == ~isEmpty \/ showNewAccount

\* finally without the close
ScanFinally_noclose(t) == t

\* finally { if (transport) close(transport, deviceId) }
ScanFinally(t) == IF t = "open" THEN "closed" ELSE t

\* stepAccount without the check of the cancellation flag
stepAccount_nocheck(isFinished, isEmpty, isNaN) ==
    IF isNaN THEN [kind |-> "throw", isEmpty |-> isEmpty]
    ELSE [kind |-> "account", isEmpty |-> isEmpty]

\* stepAccount from the point where getAccountShape has resolved:
\* undefined when the scan is cancelled, an exception on a NaN balance,
\* else the account.
stepAccount(isFinished, isEmpty, isNaN) ==
    IF isFinished THEN [kind |-> "undefined", isEmpty |-> isEmpty]
    ELSE IF isNaN THEN [kind |-> "throw", isEmpty |-> isEmpty]
    ELSE [kind |-> "account", isEmpty |-> isEmpty]

\* What a getAddress request is rejected with: a denial
\* (TransportStatusError, UserRefusedAddress) or a hard transport error.
AddressErrors == {"denied", "hard"}

\* Position of main() between the rejection of the getAddress awaited at
\* pc and its resumption.
Rejected_(pc, e) ==
    CASE pc = "seedAddr" /\ e = "denied" -> "seedAddrDenied"
      [] pc = "seedAddr" /\ e = "hard" -> "seedAddrHard"
      [] pc = "idxAddr" /\ e = "denied" -> "idxAddrDenied"
      [] pc = "idxAddr" /\ e = "hard" -> "idxAddrHard"

\* main() leaves through catch and finally: o.error(e), close
ScanAbort ==
    /\ scanPc' = "done"
    /\ outcome' = "error"
    /\ transport' = ScanFinally(transport)

\* The observable is subscribed: main() runs up to the await of open.
ScanStart ==
    /\ scanPc = "init"
    /\ scanPc' = "open"
    /\ UNCHANGED <<transport, finished, derivationsCache, modeIdx, mode,
                   index, emptyCount, events, probed, outcome>>

\* transport = await open(deviceId)
OpenOk ==
    /\ scanPc = "open"
    /\ transport' = "open"
    /\ scanPc' = "modeLoop"
    /\ UNCHANGED <<finished, derivationsCache, modeIdx, mode, index,
                   emptyCount, events, probed, outcome>>

\* open rejects: transport stays undefined, nothing to close
OpenFail ==
    /\ scanPc = "open"
    /\ ScanAbort
    /\ UNCHANGED <<finished, derivationsCache, modeIdx, mode, index,
                   emptyCount, events, probed>>

\* for (const derivationMode of derivationModes): no mode is left,
\* o.complete() and finally.
ScanComplete ==
    /\ scanPc = "modeLoop"
    /\ modeIdx = NModes
    /\ scanPc' = "done"
    /\ outcome' = "complete"
    /\ transport' = ScanFinally(transport)
    /\ UNCHANGED <<finished, derivationsCache, modeIdx, mode, index,
                   emptyCount, events, probed>>

\* next mode, its seed identifier path is in derivationsCache
ModeCached ==
    /\ scanPc = "modeLoop"
    /\ modeIdx < NModes
    /\ \E cfg \in ModeConfigs :
          /\ InOrderOfUse(cfg)
          /\ seedPathOf(cfg) \in derivationsCache
          /\ mode' = cfg
          /\ index' = cfg.startsAt
    /\ modeIdx' = modeIdx + 1
    /\ emptyCount' = 0
    /\ scanPc' = "indexLoop"
    /\ UNCHANGED <<transport, finished, derivationsCache, events, probed,
                   outcome>>

\* next mode, result = await getAddress(transport, {path, ...})
ModeRequestSeed ==
    /\ scanPc = "modeLoop"
    /\ modeIdx < NModes
    /\ \E cfg \in ModeConfigs :
          /\ InOrderOfUse(cfg)
          /\ seedPathOf(cfg) \notin derivationsCache
          /\ mode' = cfg
    /\ modeIdx' = modeIdx + 1
    /\ scanPc' = "seedAddr"
    /\ UNCHANGED <<transport, finished, derivationsCache, index, emptyCount,
                   events, probed, outcome>>

\* getAddress of the seed identifier path resolves
SeedAddrOk ==
    /\ scanPc = "seedAddr"
    /\ derivationsCache' = derivationsCache \cup {seedPathOf(mode)}
    /\ index' = mode.startsAt
    /\ emptyCount' = 0
    /\ scanPc' = "indexLoop"
    /\ UNCHANGED <<transport, finished, modeIdx, mode, events, probed,
                   outcome>>

\* The device answers the awaited getAddress of the seed identifier path
\* with a rejection: a denial (TransportStatusError, UserRefusedAddress) or
\* a hard transport error.
SeedAddrReject ==
    /\ scanPc = "seedAddr"
    /\ \E e \in AddressErrors : scanPc' = Rejected_(scanPc, e)
    /\ UNCHANGED <<transport, finished, derivationsCache, modeIdx, mode,
                   index, emptyCount, events, probed, outcome>>

\* main() resumes in the catch block of the seed request: it logs a denial
\* and swallows the error whatever it is, result is undefined, continue.
SeedAddrFail ==
    /\ \E e \in AddressErrors :
          /\ scanPc = Rejected_("seedAddr", e)
          /\ scanPc' = "modeLoop"
    /\ mode' = None
    /\ UNCHANGED <<transport, finished, derivationsCache, modeIdx,
                   index, emptyCount, events, probed, outcome>>

\* for (let index = startsAt; index < stopAt; index++): the loop ends
IndexLoopExit ==
    /\ scanPc = "indexLoop"
    /\ index >= stopAtOf(mode)
    /\ scanPc' = "modeLoop"
    /\ mode' = None
    /\ index' = 0
    /\ emptyCount' = 0
    /\ UNCHANGED <<transport, finished, derivationsCache, modeIdx, events,
                   probed, outcome>>

\* if (!derivationModeSupportsIndex(derivationMode, index)) continue
IndexSkipUnsupported ==
    /\ scanPc = "indexLoop"
    /\ index < stopAtOf(mode)
    /\ index \in mode.unsupported
    /\ index' = index + 1
    /\ UNCHANGED <<scanPc, transport, finished, derivationsCache, modeIdx,
                   mode, emptyCount, events, probed, outcome>>

\* the address of the index is in derivationsCache: stepAccount is called
\* and awaits getAccountShape
IndexCached ==
    /\ scanPc = "indexLoop"
    /\ index < stopAtOf(mode)
    /\ Len(probed) < MaxProbes
    /\ index \notin mode.unsupported
    /\ freshAddressPathOf(mode, index) \in derivationsCache
    /\ probed' = Append(probed, Probe(modeIdx, index, mode))
    /\ scanPc' = "shape"
    /\ UNCHANGED <<transport, finished, derivationsCache, modeIdx, mode,
                   index, emptyCount, events, outcome>>

\* res = await getAddress(transport, {path: freshAddressPath, ...})
IndexRequestAddr ==
    /\ scanPc = "indexLoop"
    /\ index < stopAtOf(mode)
    /\ Len(probed) < MaxProbes
    /\ index \notin mode.unsupported
    /\ freshAddressPathOf(mode, index) \notin derivationsCache
    /\ scanPc' = "idxAddr"
    /\ UNCHANGED <<transport, finished, derivationsCache, modeIdx, mode,
                   index, emptyCount, events, probed, outcome>>

\* getAddress of the index resolves: stepAccount is called and awaits
\* getAccountShape
IdxAddrOk ==
    /\ scanPc = "idxAddr"
    /\ derivationsCache' =
          derivationsCache \cup {freshAddressPathOf(mode, index)}
    /\ probed' = Append(probed, Probe(modeIdx, index, mode))
    /\ scanPc' = "shape"
    /\ UNCHANGED <<transport, finished, modeIdx, mode, index, emptyCount,
                   events, outcome>>

\* The device answers the awaited getAddress of the account path with a
\* rejection.
IdxAddrReject ==
    /\ scanPc = "idxAddr"
    /\ \E e \in AddressErrors : scanPc' = Rejected_(scanPc, e)
    /\ UNCHANGED <<transport, finished, derivationsCache, modeIdx, mode,
                   index, emptyCount, events, probed, outcome>>

\* main() resumes with the rejection of the account path request: no
\* try/catch around it, whatever the error it reaches the outer catch.
IdxAddrFail ==
    /\ \E e \in AddressErrors :
          /\ scanPc = Rejected_("idxAddr", e)
          /\ ScanAbort
    /\ UNCHANGED <<finished, derivationsCache, modeIdx, mode, index,
                   emptyCount, events, probed>>

\* getAccountShape resolves: the rest of stepAccount, then the rest of the
\* loop body of main() up to the next await. The return of stepAccount
\* resumes main() in the next microtask, no device or network operation is
\* awaited in between: the two are one step.
ShapeOk ==
    /\ scanPc = "shape"
    /\ \E isEmpty \in BOOLEAN, isNaN \in BOOLEAN :
        LET acc == stepAccount(finished, isEmpty, isNaN) IN
        CASE acc.kind = "undefined" ->
                \* if (!account) return
                /\ scanPc' = "done"
                /\ outcome' = "cancelled"
                /\ transport' = ScanFinally(transport)
                /\ UNCHANGED <<mode, index, emptyCount, events, probed>>
          [] acc.kind = "throw" ->
                /\ ScanAbort
                /\ UNCHANGED <<mode, index, emptyCount, events, probed>>
          [] acc.kind = "account" ->
                /\ probed' = [probed EXCEPT ![Len(probed)].res =
                                 IF acc.isEmpty THEN "empty" ELSE "used"]
                /\ events' =
                      IF shouldEmit(acc.isEmpty, mode.showNewAccount)
                      THEN Append(events, [mode |-> modeIdx, index |-> index,
                                           isEmpty |-> acc.isEmpty])
                      ELSE events
                /\ IF acc.isEmpty /\ emptyCount >= mode.skip
                   THEN \* break
                        /\ scanPc' = "modeLoop"
                        /\ mode' = None
                        /\ index' = 0
                        /\ emptyCount' = 0
                   ELSE /\ scanPc' = "indexLoop"
                        /\ index' = index + 1
                        /\ emptyCount' = IF acc.isEmpty THEN emptyCount + 1
                                         ELSE emptyCount
                        /\ UNCHANGED mode
                /\ UNCHANGED <<transport, outcome>>
    /\ UNCHANGED <<finished, derivationsCache, modeIdx>>

\* getAccountShape rejects
ShapeFail ==
    /\ scanPc = "shape"
    /\ ScanAbort
    /\ UNCHANGED <<finished, derivationsCache, modeIdx, mode, index,
                   emptyCount, events, probed>>

\* The subscriber unsubscribes while main() is suspended on an await.
Unsubscribe ==
    /\ scanPc \in {"open", "seedAddr", "idxAddr", "shape"}
    /\ ~finished
    /\ finished' = TRUE
    /\ UNCHANGED <<scanPc, transport, derivationsCache, modeIdx, mode, index,
                   emptyCount, events, probed, outcome>>

InitScan ==
    /\ MergeIdle
    /\ SyncIdle
    /\ ScanIdle
    /\ PrepareIdle
    /\ StakeIdle

NextScan ==
    \/ ScanStart /\ UNCHANGED <<mergeVars, syncVars, prepVars, stakeVars>>
    \/ OpenOk /\ UNCHANGED <<mergeVars, syncVars, prepVars, stakeVars>>
    \/ OpenFail /\ UNCHANGED <<mergeVars, syncVars, prepVars, stakeVars>>
    \/ ScanComplete /\ UNCHANGED <<mergeVars, syncVars, prepVars, stakeVars>>
    \/ ModeCached /\ UNCHANGED <<mergeVars, syncVars, prepVars, stakeVars>>
    \/ ModeRequestSeed /\ UNCHANGED <<mergeVars, syncVars, prepVars, stakeVars>>
    \/ SeedAddrOk /\ UNCHANGED <<mergeVars, syncVars, prepVars, stakeVars>>
    \/ SeedAddrReject /\ UNCHANGED <<mergeVars, syncVars, prepVars, stakeVars>>
    \/ SeedAddrFail /\ UNCHANGED <<mergeVars, syncVars, prepVars, stakeVars>>
    \/ IndexLoopExit /\ UNCHANGED <<mergeVars, syncVars, prepVars, stakeVars>>
    \/ IndexSkipUnsupported /\ UNCHANGED <<mergeVars, syncVars, prepVars, stakeVars>>
    \/ IndexCached /\ UNCHANGED <<mergeVars, syncVars, prepVars, stakeVars>>
    \/ IndexRequestAddr /\ UNCHANGED <<mergeVars, syncVars, prepVars, stakeVars>>
    \/ IdxAddrOk /\ UNCHANGED <<mergeVars, syncVars, prepVars, stakeVars>>
    \/ IdxAddrReject /\ UNCHANGED <<mergeVars, syncVars, prepVars, stakeVars>>
    \/ IdxAddrFail /\ UNCHANGED <<mergeVars, syncVars, prepVars, stakeVars>>
    \/ ShapeOk /\ UNCHANGED <<mergeVars, syncVars, prepVars, stakeVars>>
    \/ ShapeFail /\ UNCHANGED <<mergeVars, syncVars, prepVars, stakeVars>>
    \/ Unsubscribe /\ UNCHANGED <<mergeVars, syncVars, prepVars, stakeVars>>

SpecScan == InitScan /\ [][NextScan]_vars

\* ------------------------------------------------------- claims on mergeOps
AllDates(ops) == { ops[i].date : i \in DOMAIN ops }

\* C1: for an existing list (sorted newer to older, ids unique) and a fetched
\* list whose ids are disjoint from the existing ones, mergeOps returns a
\* list sorted strictly descending by date that holds exactly the union of
\* the ids of both inputs, each id once; no fetched operation is lost.
\* Stated on the inputs most favourable to the claim: the fetched list has
\* no duplicate id and no two operations of the two lists share a date.
C1_MergeKeepsUnion ==
    ( /\ mPc # "start"
      /\ Ids(mExisting) \cap Ids(mFetched) = {}
      /\ IsDeduped(mFetched)
      /\ Cardinality(AllDates(mExisting \o mFetched))
            = Len(mExisting) + Len(mFetched) )
    => /\ IsStrictlyDesc(mResult.ops)
       /\ IsDeduped(mResult.ops)
       /\ Ids(mResult.ops) = Ids(mExisting) \cup Ids(mFetched)

\* C2: merging the same fetched list a second time changes nothing:
\* mergeOps(mergeOps(a, b), b) is the same sequence as mergeOps(a, b).
C2_MergeIdempotent ==
    mPc = "remerged" => mAgain.ops = mResult.ops

\* the first merge built a new list and left a fetched operation out of it
C2_Witness ==
    /\ mPc = "remerged"
    /\ mResult.ref = "all"
    /\ Len(mResult.ops) > Len(mExisting)
    /\ Ids(mFetched) \ Ids(mResult.ops) # {}

\* C3: with an empty fetched list mergeOps returns the existing list itself:
\* the same array, hence the same content in the same order.
C3_EmptyFetchedReturnsExisting ==
    (mPc # "start" /\ mFetched = <<>>)
    => mResult = [ref |-> "existing", ops |-> mExisting]

C3_Witness ==
    /\ mPc = "merged"
    /\ mFetched = <<>>
    /\ Len(mExisting) >= 2
    /\ mResult.ref = "existing"

\* C4: with an empty existing list mergeOps returns the fetched operations
\* sorted descending by date and deduped by id, each fetched id exactly once.
C4_EmptyExistingSortedDeduped ==
    (mPc # "start" /\ mExisting = <<>>)
    => /\ IsSortedDesc(mResult.ops)
       /\ IsDeduped(mResult.ops)
       /\ Ids(mResult.ops) = Ids(mFetched)

\* ------------------------------------------------------- claims on makeSync
Range(seq) == { seq[i] : i \in DOMAIN seq }

\* s is t with some elements left out: same records, same relative order
RECURSIVE IsSubsequence(_, _)
IsSubsequence(s, t) ==
    IF s = <<>> THEN TRUE
    ELSE IF t = <<>> THEN FALSE
    ELSE IF Head(s) = Head(t) THEN IsSubsequence(Tail(s), Tail(t))
    ELSE IsSubsequence(s, Tail(t))

\* the step in which the caller applies the updater of a sync
UpdaterApplied == updater # <<>> /\ updater' = <<>>

C6_FetchFailureEmitsNothing ==
    [][(syncPc = "fetching" /\ syncPc' = "errored")
        => (nexts' = 0 /\ updater' = <<>> /\ account' = account)]_vars

C6_Witness ==
    /\ syncPc = "errored"
    /\ nexts = 0
    /\ updater = <<>>
    /\ account.pendingOperations # <<>>

\* C7: a pending operation added to the account after the sync started and
\* before its updater is applied is still in the account the updater
\* returns, unless the retention predicate rejects it; the operations of
\* the then-current account are kept as well.
C7_InFlightEditsSurvive ==
    [][UpdaterApplied =>
        /\ \A op \in inFlightEdits :
              shouldRetainPendingOperation(account, op)
                  => op \in Range(account'.pendingOperations)
        /\ IsSubsequence(account.operations, account'.operations)]_vars

\* the updater of the run was applied after an in-flight edit, which is kept
C7_Witness ==
    /\ syncPc = "completed"
    /\ updater = <<>>
    /\ \E op \in inFlightEdits : op \in Range(account.pendingOperations)

\* C8: the updater of the sync whose shape holds the confirmed operation of
\* a pending operation returns an account without that pending operation;
\* a pending operation with no confirmed operation is retained.
C8_PendingRemovedByObservingSync ==
    [][UpdaterApplied =>
        \A p \in Range(account.pendingOperations) :
            /\ p.id \in Ids(updater[1].shape.operations)
                  => p \notin Range(account'.pendingOperations)
            /\ p.id \notin Ids(updater[1].shape.operations)
                           \cup Ids(account.operations)
                  => p \in Range(account'.pendingOperations)]_vars

\* ----------------------------------------------- claims on makeScanAccounts
\* C9: a scan that has opened the device connection has closed it when
\* main() is left, by completion, by an error or by cancellation.
C9_ConnectionReleased ==
    scanPc = "done" => transport # "open"

\* left by an error of an address request or of a shape fetch, closed
C9_Witness ==
    /\ scanPc = "done"
    /\ outcome = "error"
    /\ transport = "closed"
    /\ probed # <<>>

\* C10: once the cancellation flag is set the scan emits no further
\* "discovered" event.
C10_NoEventAfterCancel ==
    [][finished => events' = events]_vars

\* cancelled after a discovery, the fetch in flight has completed since
C10_Witness ==
    /\ finished
    /\ scanPc = "done"
    /\ outcome = "cancelled"
    /\ events # <<>>

\* The empty accounts in a row at the end of the probes of mode m.
RECURSIVE EmptyRun(_, _)
EmptyRun(p, m) ==
    IF p = <<>> THEN 0
    ELSE LET last == p[Len(p)] IN
         IF last.mode = m /\ last.res = "empty"
         THEN 1 + EmptyRun(SubSeq(p, 1, Len(p) - 1), m)
         ELSE 0

\* C11: when an account of a mode has been classified, the scan of the mode
\* is abandoned exactly when the empty accounts met in a row, this one
\* included, exceed getMandatoryEmptyAccountSkip of the mode: a non-empty
\* account starts the count again.
C11_StopsOnConsecutiveEmpties ==
    [][(scanPc = "shape" /\ scanPc' \in {"modeLoop", "indexLoop"}) =>
          ((scanPc' = "modeLoop") <=> (EmptyRun(probed', modeIdx) > mode.skip))
      ]_vars

\* C12: the "discovered" events are, in the order of the probes, the
\* accounts built by stepAccount that have operations and, in a mode that
\* shows new accounts, the empty ones too: nothing else, nothing twice.
C12_DiscoveredFollowProbes ==
    LET emitted == SelectSeq(probed, LAMBDA q :
                       q.res = "used" \/ (q.res = "empty" /\ q.show))
    IN  events = [i \in 1..Len(emitted) |->
                     [mode |-> emitted[i].mode, index |-> emitted[i].index,
                      isEmpty |-> emitted[i].res = "empty"]]

\* an empty account announced, another one passed over in silence, and an
\* account with operations announced
C12_Witness ==
    /\ \E i \in 1..Len(events) : events[i].isEmpty
    /\ \E i \in 1..Len(events) : ~events[i].isEmpty
    /\ \E j \in 1..Len(probed) : probed[j].res = "empty" /\ ~probed[j].show

\* ------------------------------------------------------ prepareTransaction
\* (solana family, js-prepareTransaction)

\* lamportsPerSignature answered by api.getTxFeeCalculator is 1..MaxFee or 5
MaxFee == 2
\* balances of the main account are 0..MaxBalance and 1000, draft amounts
\* are -1..MaxBalance + 1
MaxBalance == 3
\* spendable balances of the token sub-account are 0..MaxTokenBalance
MaxTokenBalance == 1
\* rent exemption minimums answered by the chain are 1..MaxRent
MaxRent == 1
\* a memo has up to MaxMemoChars characters
MaxMemoChars == 2
\* MAX_MEMO_LENGTH of ./logic, in bytes, scaled to the memos drawn
MAX_MEMO_LENGTH == 3

Fees == 1..MaxFee \cup {5}
Balances == 0..MaxBalance \cup {1000}
Amounts == -1..(MaxBalance + 1)
TokenAmounts == -1..(MaxTokenBalance + 1)
Rents == 1..MaxRent

\* A character of a memo is given by the number of bytes of its UTF-8
\* encoding: 1 (ASCII), 2 or 3 (rest of the basic plane), 4 (beyond it, two
\* UTF-16 code units). The memos drawn use ASCII and 3-byte characters.
CharWidths == {1, 3}

\* uiState.memo is optional
NoMemo == [defined |-> FALSE, chars |-> <<>>]
Memos ==
    {NoMemo} \cup
    { [defined |-> TRUE, chars |-> s] : s \in SeqsUpTo(CharWidths, MaxMemoChars) }

RECURSIVE SumSeq(_)
SumSeq(s) == IF s = <<>> THEN 0 ELSE Head(s) + SumSeq(Tail(s))

\* memo.length: the number of UTF-16 code units
memoLength(memo) ==
    SumSeq([i \in 1..Len(memo.chars) |-> IF memo.chars[i] = 4 THEN 2 ELSE 1])

\* Buffer.from(memo, "utf-8").byteLength
byteLength(memo) == SumSeq(memo.chars)

\* The addresses a draft can name: none, the main account's own address,
\* the address of the sender's token account, a string that is not base58,
\* a wallet address on the ed25519 curve, a valid address off the curve.
MainAddress == "main"
SenderATA == "ata"
Recipients == {"", MainAddress, SenderATA, "bad%", "wallet", "pda"}

\* ./logic isValidBase58Address
isValidBase58Address(a) == a \notin {"", "bad%"}
\* ./logic isEd25519Address: program-derived addresses are off the curve
isEd25519Address(a) == a \notin {"pda", SenderATA}

\* api.findAssocTokenAccAddress(owner, mint): the associated token account
\* of an owner for the mint of the sender's token (the only mint passed)
AssocAddresses == {"assoc@main", "assoc@wallet", "assoc@other"}
findAssocTokenAccAddress(owner, mint) ==
    CASE owner = MainAddress -> "assoc@main"
      [] owner = "wallet" -> "assoc@wallet"
      [] OTHER -> "assoc@other"

\* A thrown or returned error object: its class and the `new` expression
\* (source line) that made it. NoError stands for an absent entry.
NoError == [name |-> "", site |-> 0]
Err(name, site) == [name |-> name, site |-> site]

ErrorKeys == {"recipient", "amount", "memo", "transaction", "voteAccAddr",
              "voteAccAddress", "stakeAccAddr"}
WarningKeys == {"recipient", "recipientOffCurve"}
\* const errors: Record<string, Error> = {}
NoErrors == [k \in ErrorKeys |-> NoError]
NoWarnings == [k \in WarningKeys |-> NoError]

\* isAccountFunded: (await api.getBalance(address)) > 0
isAccountFunded(address, api) == api.getBalance[address] > 0

\* validateRecipientCommon: the errors and warnings it leaves
validateRecipientCommon(mainAccount, tx, errors, warnings, api) ==
    IF tx.recipient = ""
    THEN [errors |-> [errors EXCEPT !.recipient = Err("RecipientRequired", 627)],
          warnings |-> warnings]
    ELSE IF mainAccount.freshAddress = tx.recipient
    THEN [errors |-> [errors EXCEPT !.recipient =
                Err("InvalidAddressBecauseDestinationIsAlsoSource", 629)],
          warnings |-> warnings]
    ELSE IF ~isValidBase58Address(tx.recipient)
    THEN [errors |-> [errors EXCEPT !.recipient = Err("InvalidAddress", 631)],
          warnings |-> warnings]
    ELSE LET w1 == IF ~isAccountFunded(tx.recipient, api)
                   THEN [warnings EXCEPT !.recipient =
                            Err("SolanaAccountNotFunded", 639)]
                   ELSE warnings
             w2 == IF ~isEd25519Address(tx.recipient)
                   THEN [w1 EXCEPT !.recipientOffCurve =
                            Err("SolanaAddressOffEd25519", 642)]
                   ELSE w1
         IN [errors |-> errors, warnings |-> w2]

\* validateMemoCommon measuring the memo in characters
validateMemoCommon_charLength(memo, errors) ==
    IF memoLength(memo) > MAX_MEMO_LENGTH
    THEN [errors EXCEPT !.memo = Err("SolanaMemoIsTooLong", 650),
                        !.transaction = Err("SolanaMemoIsTooLong", 650)]
    ELSE errors

\* validateMemoCommon: errors.transaction is the object put in errors.memo
validateMemoCommon(memo, errors) ==
    IF byteLength(memo) > MAX_MEMO_LENGTH
    THEN LET withMemo == [errors EXCEPT !.memo = Err("SolanaMemoIsTooLong", 650)]
         IN [withMemo EXCEPT !.transaction = withMemo.memo]
    ELSE errors

\* if (typeof memo === "string" && memo.length > 0) validateMemoCommon(...)
validateMemoIfAny(memo, errors) ==
    IF memo.defined /\ memoLength(memo) > 0
    THEN validateMemoCommon(memo, errors)
    ELSE errors

Max(a, b) == IF a >= b THEN a ELSE b

\* the whole balance, the fee not set aside
useAllAmountOf_nofee(balance, fee) == balance

\* BigNumber.max(mainAccount.balance.minus(fee), 0)
useAllAmountOf(balance, fee) == Max(balance - fee, 0)

\* what a derive routine gives: a descriptor, or the error it throws
Resolved(command, fee, warnings, errors) ==
    [kind |-> "resolved", command |-> command, fee |-> fee,
     warnings |-> warnings, errors |-> errors]
Rejected(message, site) == [kind |-> "rejected", error |-> Err(message, site)]

\* deriveTransferCommandDescriptor
deriveTransferCommandDescriptor(mainAccount, tx, model, api) ==
    LET v == validateRecipientCommon(mainAccount, tx, NoErrors, NoWarnings, api)
        e1 == validateMemoIfAny(model.uiState.memo, v.errors)
        fee == api.lamportsPerSignature
        txAmount == IF tx.useAllAmount THEN useAllAmountOf(mainAccount.balance, fee)
                    ELSE tx.amount
        e2 == IF tx.useAllAmount
              THEN IF txAmount = 0
                   THEN [e1 EXCEPT !.amount = Err("NotEnoughBalance", 323)]
                   ELSE e1
              ELSE IF txAmount <= 0
                   THEN [e1 EXCEPT !.amount = Err("AmountRequired", 327)]
                   ELSE IF txAmount + fee > mainAccount.balance
                   THEN [e1 EXCEPT !.amount = Err("NotEnoughBalance", 329)]
                   ELSE e1
    IN Resolved([kind |-> "transfer", amount |-> txAmount,
                 sender |-> mainAccount.freshAddress,
                 recipient |-> tx.recipient, memo |-> model.uiState.memo],
                fee, v.warnings, e2)

\* The token of the sender's sub-account and another one
Mint == "mintA"
OtherMint == "mintB"

\* ../../account findSubAccountById: the sub-accounts with that id
findSubAccountById(mainAccount, id) ==
    SelectSeq(mainAccount.subAccounts, LAMBDA a : a.id = id)

\* ./logic decodeAccountIdWithTokenAccountAddress(id).address
tokenAccountAddressOf(id) == SenderATA

\* getTokenRecipient: a recipient descriptor, a returned Error or a throw
\* getMaybeTokenAccount answers undefined (no token account at the
\* address), an Error (the account data cannot be read as a token account)
\* or the token account.
getTokenRecipient(recipientAddress, mintAddress, api) ==
    LET recipientTokenAccount == api.getMaybeTokenAccount IN
    IF recipientTokenAccount.kind = "error"
    THEN [kind |-> "throw", error |-> Err("TokenAccountParseError", 231)]
    ELSE IF recipientTokenAccount.kind = "undefined"
    THEN IF ~isEd25519Address(recipientAddress)
         THEN [kind |-> "error", error |-> Err("SolanaAddressOffEd25519", 236)]
         ELSE LET assoc == findAssocTokenAccAddress(recipientAddress, mintAddress)
              IN [kind |-> "descriptor",
                  walletAddress |-> recipientAddress,
                  shouldCreateAsAssociatedTokenAccount |->
                      ~isAccountFunded(assoc, api),
                  tokenAccAddress |-> assoc]
    ELSE IF recipientTokenAccount.mint # mintAddress
    THEN [kind |-> "error",
          error |-> Err("SolanaTokenAccountHoldsAnotherToken", 254)]
    ELSE IF recipientTokenAccount.state # "initialized"
    THEN [kind |-> "error",
          error |-> Err("SolanaTokenAccounNotInitialized", 257)]
    ELSE [kind |-> "descriptor",
          walletAddress |-> recipientTokenAccount.owner,
          shouldCreateAsAssociatedTokenAccount |-> FALSE,
          tokenAccAddress |-> recipientAddress]

defaultRecipientDescriptor ==
    [kind |-> "descriptor", walletAddress |-> "",
     shouldCreateAsAssociatedTokenAccount |-> FALSE,
     tokenAccAddress |-> ""]

\* the sender's own token account is accepted as recipient
checkRecipientIsSenderATA_skip(errors, recipient, senderATA) == errors

\* if (!errors.recipient && tx.recipient === senderAssociatedTokenAccountAddress)
\*   errors.recipient = new SolanaTokenRecipientIsSenderATA()
checkRecipientIsSenderATA(errors, recipient, senderATA) ==
    IF errors.recipient = NoError /\ recipient = senderATA
    THEN [errors EXCEPT !.recipient = Err("SolanaTokenRecipientIsSenderATA", 157)]
    ELSE errors

\* deriveTokenTransferCommandDescriptor
deriveTokenTransferCommandDescriptor(mainAccount, tx, model, api) ==
    LET found == findSubAccountById(mainAccount, model.uiState.subAccountId) IN
    IF found = <<>> \/ found[1].type # "TokenAccount"
    THEN Rejected("subaccount not found", 135)
    ELSE
    LET subAccount == found[1]
        v == validateRecipientCommon(mainAccount, tx, NoErrors, NoWarnings, api)
        e1 == validateMemoIfAny(model.uiState.memo, v.errors)
        senderAssociatedTokenAccountAddress == tokenAccountAddressOf(subAccount.id)
        e2 == checkRecipientIsSenderATA(e1, tx.recipient,
                                        senderAssociatedTokenAccountAddress)
        recipientDescriptorOrError ==
            IF e2.recipient # NoError THEN defaultRecipientDescriptor
            ELSE getTokenRecipient(tx.recipient, subAccount.mint, api)
    IN
    IF recipientDescriptorOrError.kind = "throw"
    THEN [kind |-> "rejected", error |-> recipientDescriptorOrError.error]
    ELSE
    LET e3 == IF e2.recipient = NoError
                 /\ recipientDescriptorOrError.kind = "error"
              THEN [e2 EXCEPT !.recipient = recipientDescriptorOrError.error]
              ELSE e2
        recipientDescriptor ==
            IF recipientDescriptorOrError.kind = "error"
            THEN defaultRecipientDescriptor
            ELSE recipientDescriptorOrError
        txFee == api.lamportsPerSignature
        assocAccRentExempt ==
            IF recipientDescriptor.shouldCreateAsAssociatedTokenAccount
            THEN api.getAssocTokenAccMinNativeBalance ELSE 0
        w1 == IF recipientDescriptor.shouldCreateAsAssociatedTokenAccount
              THEN [v.warnings EXCEPT !.recipient =
                Err("SolanaRecipientAssociatedTokenAccountWillBeFunded", 188)]
              ELSE v.warnings
        e4 == IF ~tx.useAllAmount /\ tx.amount <= 0
              THEN [e3 EXCEPT !.amount = Err("AmountRequired", 192)]
              ELSE e3
        txAmount == IF tx.useAllAmount THEN subAccount.spendableBalance
                    ELSE tx.amount
        e5 == IF e4.amount = NoError /\ txAmount > subAccount.spendableBalance
              THEN [e4 EXCEPT !.amount = Err("NotEnoughBalance", 200)]
              ELSE e4
    IN Resolved([kind |-> "token.transfer",
                 ownerAddress |-> mainAccount.freshAddress,
                 ownerAssociatedTokenAccountAddress |->
                     senderAssociatedTokenAccountAddress,
                 amount |-> txAmount,
                 mintAddress |-> subAccount.mint,
                 recipientDescriptor |-> recipientDescriptor,
                 memo |-> model.uiState.memo],
                txFee + assocAccRentExempt, w1, e5)

\* deriveCreateAssociatedTokenAccountCommandDescriptor
deriveCreateAssociatedTokenAccountCommandDescriptor(mainAccount, model, api) ==
    Resolved([kind |-> model.kind, mint |-> Mint,
              owner |-> mainAccount.freshAddress,
              associatedTokenAccountAddress |->
                  findAssocTokenAccAddress(mainAccount.freshAddress, Mint)],
             api.lamportsPerSignature + api.getAssocTokenAccMinNativeBalance,
             NoWarnings, NoErrors)

\* the seeds "stake:0" .. "stake:MaxStakeIdx" have an account in some of the
\* stake lists drawn
MaxStakeIdx == 1
\* withdrawable balances of a stake are 0..MaxWithdrawable
MaxWithdrawable == 1

\* seed = `${base}:${idx}`
seedOf(base, idx) == [base |-> base, idx |-> idx]

\* ./api/chain/web3 getStakeAccountAddressWithSeed({fromAddress, seed}):
\* the address derived from the owner and the seed, a different one for
\* each seed. Only the main account's address is ever passed as owner.
derivedStakeAddresses ==
    <<"stake:0@main", "stake:1@main", "stake:2@main", "stake:3@main",
      "stake:4@main", "stake:5@main", "stake:6@main", "stake:7@main">>
getStakeAccountAddressWithSeed(fromAddress, seed) ==
    derivedStakeAddresses[seed.idx + 1]

\* a stake account of the owner that was not opened from a "stake:k" seed
ForeignStake == "stake@elsewhere"

RECURSIVE nextStakeAccAddrRoutine(_, _, _, _)
nextStakeAccAddrRoutine(fromAddress, usedAddresses, base, idx) ==
    LET seed == seedOf(base, idx)
        addr == getStakeAccountAddressWithSeed(fromAddress, seed)
    IN IF addr \in usedAddresses
       THEN nextStakeAccAddrRoutine(fromAddress, usedAddresses, base, idx + 1)
       ELSE [seed |-> seed, addr |-> addr]

\* nextStakeAccAddr that does not look at the stakes of the account
nextStakeAccAddr_first(acc) ==
    nextStakeAccAddrRoutine(acc.freshAddress, {}, "stake", 0)

\* nextStakeAccAddr(account, base = "stake")
nextStakeAccAddr(acc) ==
    LET usedStakeAccAddrs ==
            { acc.stakes[i].stakeAccAddr : i \in 1..Len(acc.stakes) }
    IN nextStakeAccAddrRoutine(acc.freshAddress, usedStakeAccAddrs, "stake", 0)

\* The validator check of stake.createAccount (lines 377-385) and of
\* stake.delegate (lines 419-427): an address that is not base58 is
\* reported under invalidKey, a vote account that getMaybeVoteAccount does
\* not find or cannot read under "voteAccAddress".
validateVoteAccount(voteAccAddress, errors, api, invalidKey, site, validatorSite) ==
    IF ~isValidBase58Address(voteAccAddress)
    THEN [errors EXCEPT ![invalidKey] = Err("InvalidAddress", site)]
    ELSE IF api.getMaybeVoteAccount \in {"error", "undefined"}
    THEN [errors EXCEPT !.voteAccAddress =
             Err("SolanaInvalidValidator", validatorSite)]
    ELSE errors

\* deriveStakeCreateAccountCommandDescriptor
deriveStakeCreateAccountCommandDescriptor(mainAccount, tx, model, api) ==
    LET e1 == IF ~tx.useAllAmount /\ tx.amount <= 0
              THEN [NoErrors EXCEPT !.amount = Err("AmountRequired", 357)]
              ELSE NoErrors
        txFee == api.lamportsPerSignature
        stakeAccRentExemptAmount == api.getStakeAccountMinimumBalanceForRentExemption
        fee == txFee + stakeAccRentExemptAmount
        amount == IF tx.useAllAmount THEN useAllAmountOf(mainAccount.balance, fee)
                  ELSE tx.amount
        e2 == IF e1.amount = NoError /\ mainAccount.balance < amount + fee
              THEN [e1 EXCEPT !.amount = Err("NotEnoughBalance", 371)]
              ELSE e1
        e3 == validateVoteAccount(model.uiState.voteAccAddr, e2, api,
                                  "voteAccAddress", 378, 383)
        next == nextStakeAccAddr(mainAccount)
    IN Resolved([kind |-> "stake.createAccount", amount |-> amount,
                 stakeAccRentExemptAmount |-> stakeAccRentExemptAmount,
                 fromAccAddress |-> mainAccount.freshAddress,
                 stakeAccAddress |-> next.addr,
                 delegate |-> model.uiState.voteAccAddr,
                 seed |-> next.seed],
                fee, NoWarnings, e3)

\* deriveStakeDelegateCommandDescriptor
deriveStakeDelegateCommandDescriptor(mainAccount, model, api) ==
    LET e1 == IF ~isValidBase58Address(model.uiState.stakeAccAddr)
              THEN [NoErrors EXCEPT !.stakeAccAddr = Err("InvalidAddress", 416)]
              ELSE NoErrors
        e2 == validateVoteAccount(model.uiState.voteAccAddr, e1, api,
                                  "voteAccAddr", 420, 425)
    IN Resolved([kind |-> "stake.delegate",
                 authorizedAccAddr |-> mainAccount.freshAddress,
                 stakeAccAddr |-> model.uiState.stakeAccAddr,
                 voteAccAddr |-> model.uiState.voteAccAddr],
                api.lamportsPerSignature, NoWarnings, e2)

\* deriveStakeUndelegateCommandDescriptor
deriveStakeUndelegateCommandDescriptor(mainAccount, model, api) ==
    LET e1 == IF ~isValidBase58Address(model.uiState.stakeAccAddr)
              THEN [NoErrors EXCEPT !.stakeAccAddr = Err("InvalidAddress", 454)]
              ELSE NoErrors
    IN Resolved([kind |-> "stake.undelegate",
                 authorizedAccAddr |-> mainAccount.freshAddress,
                 stakeAccAddr |-> model.uiState.stakeAccAddr],
                api.lamportsPerSignature, NoWarnings, e1)

\* deriveStakeWithdrawCommandDescriptor without the check of the amount
deriveStakeWithdrawCommandDescriptor_anyAmount(mainAccount, tx, model, api) ==
    LET found == SelectSeq(mainAccount.stakes,
                     LAMBDA s : s.stakeAccAddr = model.uiState.stakeAccAddr)
    IN IF found = <<>>
       THEN Rejected("stake not found", 484)
       ELSE Resolved([kind |-> "stake.withdraw",
                      authorizedAccAddr |-> mainAccount.freshAddress,
                      stakeAccAddr |-> found[1].stakeAccAddr,
                      amount |-> tx.amount,
                      toAccAddr |-> mainAccount.freshAddress],
                     api.lamportsPerSignature, NoWarnings, NoErrors)

\* deriveStakeWithdrawCommandDescriptor
deriveStakeWithdrawCommandDescriptor(mainAccount, tx, model, api) ==
    LET found == SelectSeq(mainAccount.stakes,
                     LAMBDA s : s.stakeAccAddr = model.uiState.stakeAccAddr)
    IN IF found = <<>>
       THEN Rejected("stake not found", 484)
       ELSE IF found[1].withdrawable # tx.amount
       THEN Rejected("withdrawable amount mismatch", 490)
       ELSE Resolved([kind |-> "stake.withdraw",
                      authorizedAccAddr |-> mainAccount.freshAddress,
                      stakeAccAddr |-> found[1].stakeAccAddr,
                      amount |-> found[1].withdrawable,
                      toAccAddr |-> mainAccount.freshAddress],
                     api.lamportsPerSignature, NoWarnings, NoErrors)

\* deriveStakeSplitCommandDescriptor: the errors it collects (lines 526-533)
\* are not the ones it returns (line 553)
deriveStakeSplitCommandDescriptor(mainAccount, tx, model, api) ==
    LET e1 == IF tx.amount <= 0
              THEN [NoErrors EXCEPT !.amount = Err("AmountRequired", 527)]
              ELSE NoErrors
        errors == IF ~isValidBase58Address(model.uiState.stakeAccAddr)
                  THEN [e1 EXCEPT !.stakeAccAddr = Err("InvalidAddress", 532)]
                  ELSE e1
        commandFees == api.getStakeAccountMinimumBalanceForRentExemption
        next == nextStakeAccAddr(mainAccount)
    IN Resolved([kind |-> "stake.split",
                 authorizedAccAddr |-> mainAccount.freshAddress,
                 stakeAccAddr |-> model.uiState.stakeAccAddr,
                 amount |-> tx.amount,
                 seed |-> next.seed,
                 splitStakeAccAddr |-> next.addr],
                commandFees, NoWarnings, NoErrors)

\* updateModelIfSubAccountIdPresent that leaves the draft as it is
updateModelIfSubAccountIdPresent_asIs(tx) == tx

\* updateModelIfSubAccountIdPresent: if (tx.subAccountId) ...
updateModelIfSubAccountIdPresent(tx) ==
    IF tx.subAccountId # ""
    THEN [tx EXCEPT !.model =
            [kind |-> "token.transfer",
             uiState |-> [tx.model.uiState EXCEPT
                             !.subAccountId = tx.subAccountId]]]
    ELSE tx

ModelKinds == {"transfer", "token.transfer", "token.createATA",
               "stake.createAccount", "stake.delegate", "stake.undelegate",
               "stake.withdraw", "stake.split"}

\* deriveCommandDescriptor: switch (model.kind)
deriveCommandDescriptor(mainAccount, tx, api) ==
    LET model == tx.model IN
    CASE model.kind = "transfer" ->
            deriveTransferCommandDescriptor(mainAccount, tx, model, api)
      [] model.kind = "token.transfer" ->
            deriveTokenTransferCommandDescriptor(mainAccount, tx, model, api)
      [] model.kind = "token.createATA" ->
            deriveCreateAssociatedTokenAccountCommandDescriptor(mainAccount, model, api)
      [] model.kind = "stake.createAccount" ->
            deriveStakeCreateAccountCommandDescriptor(mainAccount, tx, model, api)
      [] model.kind = "stake.delegate" ->
            deriveStakeDelegateCommandDescriptor(mainAccount, model, api)
      [] model.kind = "stake.undelegate" ->
            deriveStakeUndelegateCommandDescriptor(mainAccount, model, api)
      [] model.kind = "stake.withdraw" ->
            deriveStakeWithdrawCommandDescriptor(mainAccount, tx, model, api)
      [] model.kind = "stake.split" ->
            deriveStakeSplitCommandDescriptor(mainAccount, tx, model, api)

\* prepareTransaction: the command descriptor put in the prepared
\* transaction (the other fields are those of the draft), or the rejection
prepareTransaction(mainAccount, tx, api) ==
    LET txToDeriveFrom == updateModelIfSubAccountIdPresent(tx)
    IN deriveCommandDescriptor(mainAccount, txToDeriveFrom, api)

NoDescriptor == [kind |-> "none"]

\* the prepared transaction built from the redirected copy of the draft
preparedTxOf_derived(tx, txToDeriveFrom, commandDescriptor) ==
    [recipient |-> txToDeriveFrom.recipient, amount |-> txToDeriveFrom.amount,
     useAllAmount |-> txToDeriveFrom.useAllAmount,
     subAccountId |-> txToDeriveFrom.subAccountId,
     model |-> [kind |-> txToDeriveFrom.model.kind,
                uiState |-> txToDeriveFrom.model.uiState,
                commandDescriptor |-> commandDescriptor],
     networkInfo |-> TRUE]

\* preparedTx = {...tx, model: {...tx.model, commandDescriptor}} with
\* networkInfo = true: built from the draft, not from txToDeriveFrom
preparedTxOf(tx, txToDeriveFrom, commandDescriptor) ==
    [recipient |-> tx.recipient, amount |-> tx.amount,
     useAllAmount |-> tx.useAllAmount, subAccountId |-> tx.subAccountId,
     model |-> [kind |-> tx.model.kind, uiState |-> tx.model.uiState,
                commandDescriptor |-> commandDescriptor],
     networkInfo |-> TRUE]

\* ---- the drafts, accounts and chain answers prepareTransaction is given
UiState(memo, subAccountId, stakeAccAddr, voteAccAddr) ==
    [memo |-> memo, subAccountId |-> subAccountId,
     stakeAccAddr |-> stakeAccAddr, voteAccAddr |-> voteAccAddr]

Draft(recipient, amt, subAccountId, kind, uiState) ==
    [recipient |-> recipient, amount |-> amt.amount,
     useAllAmount |-> amt.useAllAmount, subAccountId |-> subAccountId,
     model |-> [kind |-> kind, uiState |-> uiState]]

\* with useAllAmount the amount of the draft is not read
AmountChoices(S) ==
    {[useAllAmount |-> TRUE, amount |-> 0]} \cup
    { [useAllAmount |-> FALSE, amount |-> a] : a \in S }

MainAccount(balance, subAccounts, stakes) ==
    [freshAddress |-> MainAddress, balance |-> balance,
     subAccounts |-> subAccounts, stakes |-> stakes]

\* the sub-accounts of the main account: none, the token account "sub1"
\* of the sender, or a sub-account "sub1" that is not a token account
SubAccountLists ==
    {<<>>,
     <<[id |-> "sub1", type |-> "ChildAccount", mint |-> Mint,
        spendableBalance |-> 0]>>} \cup
    { <<[id |-> "sub1", type |-> "TokenAccount", mint |-> Mint,
         spendableBalance |-> b]>> : b \in 0..MaxTokenBalance }

\* the stake accounts an account can know, in the order of its list
StakeCandidates ==
    [i \in 1..(MaxStakeIdx + 1) |-> derivedStakeAddresses[i]] \o <<ForeignStake>>

\* the stake list holding candidate i with withdrawable m[i] when m[i] >= 0
StakeListOf(m) ==
    LET kept == SelectSeq([i \in 1..Len(StakeCandidates) |-> i],
                          LAMBDA i : m[i] >= 0)
    IN [k \in 1..Len(kept) |->
           [stakeAccAddr |-> StakeCandidates[kept[k]],
            withdrawable |-> m[kept[k]]]]

StakeLists(W) ==
    { StakeListOf(m) : m \in [1..Len(StakeCandidates) -> {-1} \cup W] }

\* getMaybeTokenAccount(recipient): undefined, an Error or a token account
TokenAccountAnswers ==
    {[kind |-> "undefined", mint |-> "", state |-> "", owner |-> ""],
     [kind |-> "error", mint |-> "", state |-> "", owner |-> ""],
     [kind |-> "account", mint |-> Mint, state |-> "initialized",
      owner |-> "holder"],
     [kind |-> "account", mint |-> Mint, state |-> "uninitialized",
      owner |-> "holder"],
     [kind |-> "account", mint |-> OtherMint, state |-> "initialized",
      owner |-> "holder"]}

\* getMaybeVoteAccount(address): the vote account, undefined or an Error
VoteAccountAnswers == {"account", "undefined", "error"}

ChainAPI(fee, walletBalance, assocBalance, tokenAccount, rent, voteAccount) ==
    [lamportsPerSignature |-> fee,
     getBalance |-> [a \in Recipients \cup AssocAddresses |->
                        IF a \in AssocAddresses THEN assocBalance
                        ELSE walletBalance],
     getMaybeTokenAccount |-> tokenAccount,
     getAssocTokenAccMinNativeBalance |-> rent,
     getStakeAccountMinimumBalanceForRentExemption |-> rent,
     getMaybeVoteAccount |-> voteAccount]

DefaultTokenAccount == [kind |-> "undefined", mint |-> "", state |-> "", owner |-> ""]

\* plain transfers
TransferInputs ==
    \E b \in Balances, r \in Recipients, amt \in AmountChoices(Amounts), memo
       \in Memos, f \in Fees, wb \in 0..1 :
        /\ pAccount = MainAccount(b, <<>>, <<>>)
        /\ pTx = Draft(r, amt, "", "transfer", UiState(memo, "", "", ""))
        /\ pApi = ChainAPI(f, wb, 1, DefaultTokenAccount, 1, "account")

\* token transfers of the sub-account named in the model
TokenTransferInputs ==
    \E subs \in SubAccountLists, r \in Recipients, amt \in
       AmountChoices(TokenAmounts), memo \in Memos, f \in Fees, wb \in 0..1,
       ab \in 0..1, ta \in TokenAccountAnswers, rent \in Rents :
        /\ pAccount = MainAccount(1, subs, <<>>)
        /\ pTx = Draft(r, amt, "", "token.transfer", UiState(memo, "sub1", "", ""))
        /\ pApi = ChainAPI(f, wb, ab, ta, rent, "account")

\* drafts of any kind that name a sub-account in tx.subAccountId
SubAccountDraftInputs ==
    \E subs \in SubAccountLists, r \in Recipients, id \in {"sub1", "subX"}, uiId \in {"", "sub1"},
       kind \in ModelKinds, ab \in 0..1, ta \in TokenAccountAnswers, rent \in
       Rents :
        /\ pAccount = MainAccount(1, subs, <<>>)
        /\ pTx = Draft(r, [useAllAmount |-> FALSE, amount |-> 1], id, kind,
                      UiState(NoMemo, uiId, "", ""))
        /\ pApi = ChainAPI(1, 1, ab, ta, rent, "account")

CreateATAInputs ==
    \E b \in Balances, f \in Fees, rent \in Rents :
        /\ pAccount = MainAccount(b, <<>>, <<>>)
        /\ pTx = Draft("", [useAllAmount |-> FALSE, amount |-> 0], "",
                      "token.createATA", UiState(NoMemo, "", "", ""))
        /\ pApi = ChainAPI(f, 1, 1, DefaultTokenAccount, rent, "account")

StakeCreateAccountInputs ==
    \E b \in Balances, stakes \in StakeLists({0}), amt \in
       AmountChoices(Amounts), vote \in {"bad%", "vote"}, f \in Fees, rent
       \in Rents, va \in VoteAccountAnswers :
        /\ pAccount = MainAccount(b, <<>>, stakes)
        /\ pTx = Draft("", amt, "", "stake.createAccount",
                      UiState(NoMemo, "", "", vote))
        /\ pApi = ChainAPI(f, 1, 1, DefaultTokenAccount, rent, va)

StakeDelegateInputs ==
    \E kind \in {"stake.delegate", "stake.undelegate"}, sa \in {"bad%",
       derivedStakeAddresses[1]}, vote \in {"bad%", "vote"}, f \in Fees, va
       \in VoteAccountAnswers :
        /\ pAccount = MainAccount(1, <<>>, <<>>)
        /\ pTx = Draft("", [useAllAmount |-> FALSE, amount |-> 0], "", kind,
                      UiState(NoMemo, "", sa, vote))
        /\ pApi = ChainAPI(f, 1, 1, DefaultTokenAccount, 1, va)

StakeWithdrawInputs ==
    \E stakes \in StakeLists(0..MaxWithdrawable), a \in Amounts, sa \in
       Range(StakeCandidates), f \in Fees :
        /\ pAccount = MainAccount(1, <<>>, stakes)
        /\ pTx = Draft("", [useAllAmount |-> FALSE, amount |-> a], "",
                      "stake.withdraw", UiState(NoMemo, "", sa, ""))
        /\ pApi = ChainAPI(f, 1, 1, DefaultTokenAccount, 1, "account")

StakeSplitInputs ==
    \E stakes \in StakeLists({0}), a \in Amounts, sa \in {"bad%",
       derivedStakeAddresses[1]}, f \in Fees, rent \in Rents :
        /\ pAccount = MainAccount(1, <<>>, stakes)
        /\ pTx = Draft("", [useAllAmount |-> FALSE, amount |-> a], "",
                      "stake.split", UiState(NoMemo, "", sa, ""))
        /\ pApi = ChainAPI(f, 1, 1, DefaultTokenAccount, rent, "account")

PrepareInputs ==
    \/ TransferInputs
    \/ TokenTransferInputs
    \/ SubAccountDraftInputs
    \/ CreateATAInputs
    \/ StakeCreateAccountInputs
    \/ StakeDelegateInputs
    \/ StakeWithdrawInputs
    \/ StakeSplitInputs

\* prepareTransaction resolves: the prepared transaction carries the
\* command descriptor
PrepareResolves ==
    /\ pPc = "draft"
    /\ LET d == prepareTransaction(pAccount, pTx, pApi) IN
          /\ d.kind = "resolved"
          /\ pResult' = d
          /\ pPrepared' =
                <<preparedTxOf(pTx, updateModelIfSubAccountIdPresent(pTx), d)>>
    /\ pPc' = "prepared"
    /\ UNCHANGED <<pAccount, pTx, pApi>>

\* prepareTransaction rejects with the error thrown by the derivation
PrepareRejects ==
    /\ pPc = "draft"
    /\ LET d == prepareTransaction(pAccount, pTx, pApi) IN
          /\ d.kind = "rejected"
          /\ pResult' = d
    /\ pPc' = "rejected"
    /\ UNCHANGED <<pAccount, pTx, pApi, pPrepared>>

InitPrepare ==
    /\ MergeIdle
    /\ SyncIdle
    /\ ScanIdle
    /\ StakeIdle
    /\ PrepareInputs
    /\ pResult = NoDescriptor
    /\ pPrepared = <<>>
    /\ pPc = "draft"

NextPrepare ==
    \/ PrepareResolves /\ UNCHANGED <<mergeVars, syncVars, scanVars, stakeVars>>
    \/ PrepareRejects /\ UNCHANGED <<mergeVars, syncVars, scanVars, stakeVars>>

SpecPrepare == InitPrepare /\ [][NextPrepare]_vars

\* ----------------------------------------------- claims on prepareTransaction
IsTransfer == pTx.model.kind = "transfer" /\ pTx.subAccountId = ""

\* C13: for a plain transfer with fee f and balance b, with useAllAmount the
\* command amount is max(b - f, 0) and an insufficient-balance error is
\* present when that amount is 0; without useAllAmount an amount <= 0 gives
\* an amount-required error, else amount + f > b gives an
\* insufficient-balance error, else there is no amount error.
C13_TransferAmount ==
    (pPc = "prepared" /\ IsTransfer) =>
        LET b == pAccount.balance
            f == pApi.lamportsPerSignature
            amount == pResult.command.amount
            error == pResult.errors.amount
        IN  /\ pResult.fee = f
            /\ IF pTx.useAllAmount
               THEN /\ amount = (IF b - f > 0 THEN b - f ELSE 0)
                    /\ amount = 0 => error.name = "NotEnoughBalance"
               ELSE /\ amount = pTx.amount
                    /\ pTx.amount <= 0 => error.name = "AmountRequired"
                    /\ (pTx.amount > 0 /\ pTx.amount + f > b) =>
                           error.name = "NotEnoughBalance"
                    /\ (pTx.amount > 0 /\ pTx.amount + f <= b) =>
                           error = NoError

\* balance 3 and fee 5 with useAllAmount: amount 0 with the error
C13_Witness ==
    /\ pPc = "prepared"
    /\ IsTransfer
    /\ pTx.useAllAmount
    /\ pAccount.balance = 3
    /\ pApi.lamportsPerSignature = 5
    /\ pResult.command.amount = 0
    /\ pResult.errors.amount.name = "NotEnoughBalance"

IsTokenTransfer ==
    pTx.subAccountId # "" \/ pTx.model.kind = "token.transfer"

\* C14: for a plain transfer (which always resolves) and for a token
\* transfer that resolves, a memo whose UTF-8 encoding is longer than
\* MAX_MEMO_LENGTH bytes puts one and the same error object under "memo" and
\* under "transaction"; a shorter, empty or absent memo puts nothing under
\* either key.
C14_MemoTooLong ==
    /\ (pPc # "draft" /\ IsTransfer) => pPc = "prepared"
    /\ (pPc = "prepared" /\ (IsTransfer \/ IsTokenTransfer)) =>
          LET memo == pTx.model.uiState.memo
              errors == pResult.errors
          IN IF memo.defined /\ byteLength(memo) > MAX_MEMO_LENGTH
             THEN /\ errors.memo.name = "SolanaMemoIsTooLong"
                  /\ errors.transaction = errors.memo
             ELSE /\ errors.memo = NoError
                  /\ errors.transaction = NoError

\* a token transfer whose memo has no more than MAX_MEMO_LENGTH characters
\* but more bytes
C14_Witness ==
    /\ pPc = "prepared"
    /\ IsTokenTransfer
    /\ Len(pTx.model.uiState.memo.chars) <= MAX_MEMO_LENGTH
    /\ byteLength(pTx.model.uiState.memo) > MAX_MEMO_LENGTH
    /\ pResult.errors.transaction.name = "SolanaMemoIsTooLong"

\* a draft that opens a stake account: stake.createAccount or stake.split
OpensStake ==
    /\ pTx.subAccountId = ""
    /\ pTx.model.kind \in {"stake.createAccount", "stake.split"}

\* the stake account addresses the account knows
KnownStakes(acc) == { acc.stakes[i].stakeAccAddr : i \in 1..Len(acc.stakes) }

\* the address a prepared command opens a stake account at
AllocatedAddress(d) ==
    IF d.command.kind = "stake.createAccount" THEN d.command.stakeAccAddress
    ELSE d.command.splitStakeAccAddr

\* C15: the address allocated to a new stake account is the one derived
\* from the owner and the seed "stake:k", for the smallest k >= 0 whose
\* derived address is not among the stake accounts the account knows: it
\* is never one of those.
C15_NextStakeAddress ==
    (pPc = "prepared" /\ OpensStake) =>
        LET seed == pResult.command.seed
            addr == AllocatedAddress(pResult)
            derive(k) == getStakeAccountAddressWithSeed(pAccount.freshAddress,
                                                        seedOf("stake", k))
        IN  /\ seed.base = "stake"
            /\ seed.idx >= 0
            /\ addr = derive(seed.idx)
            /\ addr \notin KnownStakes(pAccount)
            /\ \A k \in 0..(seed.idx - 1) : derive(k) \in KnownStakes(pAccount)

\* the stakes of "stake:0" and "stake:1" are known: "stake:2" is allocated
C15_Witness ==
    /\ pPc = "prepared"
    /\ OpensStake
    /\ KnownStakes(pAccount) = {derivedStakeAddresses[1], derivedStakeAddresses[2]}
    /\ pResult.command.seed = seedOf("stake", 2)
    /\ AllocatedAddress(pResult) = derivedStakeAddresses[3]

\* ------------------------------- stake accounts over preparations and syncs
\* stake-opening commands prepared in one behaviour
MaxPrepared == 2

\* every stake account address of the model, in the order of the stake list
StakeUniverse == derivedStakeAddresses \o <<ForeignStake>>

\* the stake list a sync builds from the stake accounts on the chain
stakesOnChain(chain) ==
    LET addrs == SelectSeq(StakeUniverse, LAMBDA a : a \in chain)
    IN [i \in 1..Len(addrs) |-> [stakeAccAddr |-> addrs[i], withdrawable |-> 0]]

\* prepareTransaction of a stake.createAccount or stake.split draft against
\* the account as of its last sync; the command is kept with the stake
\* list it was prepared against
StakePrepare ==
    /\ Len(sPrepared) < MaxPrepared
    /\ \E kind \in {"stake.createAccount", "stake.split"} :
          LET acc == MainAccount(1, <<>>, sStakes)
              tx == Draft("", [useAllAmount |-> FALSE, amount |-> 1], "", kind,
                          UiState(NoMemo, "", derivedStakeAddresses[1], "vote"))
              api == ChainAPI(1, 1, 1, DefaultTokenAccount, 1, "account")
              d == prepareTransaction(acc, tx, api)
          IN sPrepared' = Append(sPrepared,
                 [kind |-> kind,
                  addr |-> IF kind = "stake.createAccount"
                           THEN d.command.stakeAccAddress
                           ELSE d.command.splitStakeAccAddr,
                  known |-> { sStakes[i].stakeAccAddr : i \in 1..Len(sStakes) }])
    /\ UNCHANGED <<sStakes, sChain>>

\* a prepared command is signed and broadcast: the chain opens the stake
\* account at its address (a second account at an address is refused)
StakeBroadcast ==
    /\ \E i \in 1..Len(sPrepared) :
          /\ sPrepared[i].addr \notin sChain
          /\ sChain' = sChain \cup {sPrepared[i].addr}
    /\ UNCHANGED <<sStakes, sPrepared>>

\* a sync refreshes the stake list of the account from the chain
StakeSync ==
    /\ sStakes # stakesOnChain(sChain)
    /\ sStakes' = stakesOnChain(sChain)
    /\ UNCHANGED <<sChain, sPrepared>>

InitStake ==
    /\ MergeIdle
    /\ SyncIdle
    /\ ScanIdle
    /\ PrepareIdle
    /\ sChain \in SUBSET Range(StakeCandidates)
    /\ sStakes = stakesOnChain(sChain)
    /\ sPrepared = <<>>

NextStake ==
    \/ StakePrepare /\ UNCHANGED <<mergeVars, syncVars, scanVars, prepVars>>
    \/ StakeBroadcast /\ UNCHANGED <<mergeVars, syncVars, scanVars, prepVars>>
    \/ StakeSync /\ UNCHANGED <<mergeVars, syncVars, scanVars, prepVars>>

SpecStake == InitStake /\ [][NextStake]_vars

\* C16: no two stake-opening commands prepared for the owner, whatever the
\* syncs in between, are allocated the same stake account address.
C16_PreparedAddressesDistinct ==
    \A i, j \in 1..Len(sPrepared) :
        i # j => sPrepared[i].addr # sPrepared[j].addr

\* C16, amended: a prepared command is allocated an address that is not in
\* the stake list the account knew when it was prepared, so it differs from
\* every earlier command whose stake account a sync had brought into that
\* list; commands prepared against the same stake list are allocated the
\* same address.
C16_DistinctOnceSynced ==
    \A j \in 1..Len(sPrepared) :
        /\ sPrepared[j].addr \notin sPrepared[j].known
        /\ \A i \in 1..(j - 1) :
              /\ (sPrepared[i].addr \in sPrepared[j].known) =>
                     sPrepared[i].addr # sPrepared[j].addr
              /\ (sPrepared[i].known = sPrepared[j].known) =>
                     sPrepared[i].addr = sPrepared[j].addr

\* two commands, the stake account of the first broadcast and synced
\* before the second is prepared
C16_Witness ==
    /\ Len(sPrepared) = 2
    /\ sPrepared[1].addr \in sPrepared[2].known
    /\ sPrepared[1].addr \notin sPrepared[1].known
    /\ sPrepared[1].addr # sPrepared[2].addr

\* the sub-account a token transfer draft names
NamedSubAccountId ==
    IF pTx.subAccountId # "" THEN pTx.subAccountId
    ELSE pTx.model.uiState.subAccountId

\* the token sub-account of the draft is one of the account's
HasTokenSubAccount ==
    \E i \in 1..Len(pAccount.subAccounts) :
        /\ pAccount.subAccounts[i].id = NamedSubAccountId
        /\ pAccount.subAccounts[i].type = "TokenAccount"

\* C17: a token transfer from a token sub-account of the account to the
\* address of that same token account resolves with an error under
\* "recipient", whatever getBalance and getMaybeTokenAccount answer.
C17_RecipientIsSenderATA ==
    (/\ pPc # "draft"
     /\ IsTokenTransfer
     /\ HasTokenSubAccount
     /\ pTx.recipient = tokenAccountAddressOf(NamedSubAccountId)) =>
        /\ pPc = "prepared"
        /\ pResult.errors.recipient # NoError

\* the lookup of the recipient's token account would have failed
C17_Witness ==
    /\ pPc = "prepared"
    /\ IsTokenTransfer
    /\ pTx.recipient = SenderATA
    /\ pApi.getMaybeTokenAccount.kind = "error"
    /\ pResult.errors.recipient.name = "SolanaTokenRecipientIsSenderATA"

\* C18: a prepared draft that names a sub-account in subAccountId carries a
\* token-transfer command of that sub-account (its token account, its
\* mint), whatever the kind of its model; a prepared draft that names none
\* carries a command of the kind of its model.
C18_SubAccountMeansTokenTransfer ==
    pPc = "prepared" =>
        IF pTx.subAccountId # ""
        THEN /\ pResult.command.kind = "token.transfer"
             /\ \E i \in 1..Len(pAccount.subAccounts) :
                   /\ pAccount.subAccounts[i].id = pTx.subAccountId
                   /\ pAccount.subAccounts[i].type = "TokenAccount"
                   /\ pResult.command.mintAddress = pAccount.subAccounts[i].mint
             /\ pResult.command.ownerAssociatedTokenAccountAddress =
                   tokenAccountAddressOf(pTx.subAccountId)
        ELSE pResult.command.kind = pTx.model.kind

\* a stake.withdraw draft that names the token sub-account
C18_Witness ==
    /\ pPc = "prepared"
    /\ pTx.subAccountId = "sub1"
    /\ pTx.model.kind = "stake.withdraw"
    /\ pResult.command.kind = "token.transfer"

IsStakeWithdraw ==
    pTx.subAccountId = "" /\ pTx.model.kind = "stake.withdraw"

\* the stakes of the account at the address the draft names
NamedStakes ==
    SelectSeq(pAccount.stakes,
              LAMBDA s : s.stakeAccAddr = pTx.model.uiState.stakeAccAddr)

\* the recipient passes validateRecipientCommon and is not the sender's
\* token account, and the token account found at its address belongs to
\* another mint, is not initialized or cannot be read
RecipientTokenAccountConflict ==
    /\ IsTokenTransfer
    /\ HasTokenSubAccount
    /\ pTx.recipient \notin {"", MainAddress, SenderATA}
    /\ isValidBase58Address(pTx.recipient)
    /\ \/ pApi.getMaybeTokenAccount.kind = "error"
       \/ /\ pApi.getMaybeTokenAccount.kind = "account"
          /\ \/ pApi.getMaybeTokenAccount.mint # Mint
             \/ pApi.getMaybeTokenAccount.state # "initialized"

\* C19: prepare rejects only when the sub-account of a token transfer is
\* missing, when the stake of a withdraw is unknown or when the amount of a
\* withdraw is not the withdrawable balance; a recipient token account in a
\* conflicting state (other mint, not initialized, unreadable) gives a
\* descriptor with an error under "recipient".
C19_RejectsOnlyProgrammerErrors ==
    /\ pPc = "rejected" =>
          \/ IsTokenTransfer /\ ~HasTokenSubAccount
          \/ IsStakeWithdraw /\ NamedStakes = <<>>
          \/ /\ IsStakeWithdraw
             /\ NamedStakes # <<>>
             /\ NamedStakes[1].withdrawable # pTx.amount
    /\ (pPc # "draft" /\ RecipientTokenAccountConflict) =>
          /\ pPc = "prepared"
          /\ pResult.errors.recipient # NoError

\* C20: a stake withdraw rejects when the account knows no stake at the
\* address of the draft or when the amount of the draft is not the
\* withdrawable balance of that stake; otherwise the command withdraws
\* exactly the withdrawable balance of the stake to the owner's address and
\* the error mapping is empty.
C20_WithdrawExactlyWithdrawable ==
    (pPc # "draft" /\ IsStakeWithdraw) =>
        IF NamedStakes = <<>> \/ NamedStakes[1].withdrawable # pTx.amount
        THEN pPc = "rejected"
        ELSE /\ pPc = "prepared"
             /\ pResult.command.kind = "stake.withdraw"
             /\ pResult.command.stakeAccAddr = pTx.model.uiState.stakeAccAddr
             /\ pResult.command.amount = NamedStakes[1].withdrawable
             /\ pResult.command.toAccAddr = pAccount.freshAddress
             /\ \A k \in ErrorKeys : pResult.errors[k] = NoError

\* the withdrawable balance of one of several stakes is withdrawn
C20_Witness ==
    /\ pPc = "prepared"
    /\ IsStakeWithdraw
    /\ Len(pAccount.stakes) > 1
    /\ pResult.command.amount > 0
    /\ pResult.command.amount = pTx.amount

\* C21: a call of prepare, resolved or rejected, leaves the draft and the
\* account as they were; the transaction returned is the draft (recipient,
\* amount, useAllAmount, subAccountId, kind and uiState of the model) with
\* the command descriptor added to its model and networkInfo set.
C21_PrepareLeavesInputs ==
    [][(pPc = "draft" /\ pPc' # "draft") =>
          /\ pTx' = pTx
          /\ pAccount' = pAccount
          /\ pPc' = "rejected" => pPrepared' = <<>>
          /\ pPc' = "prepared" =>
                /\ Len(pPrepared') = 1
                /\ pPrepared'[1].recipient = pTx.recipient
                /\ pPrepared'[1].amount = pTx.amount
                /\ pPrepared'[1].useAllAmount = pTx.useAllAmount
                /\ pPrepared'[1].subAccountId = pTx.subAccountId
                /\ pPrepared'[1].model.kind = pTx.model.kind
                /\ pPrepared'[1].model.uiState = pTx.model.uiState
                /\ pPrepared'[1].model.commandDescriptor = pResult'
                /\ pPrepared'[1].networkInfo
      ]_vars

\* a stake.delegate draft naming a sub-account: derived as a token transfer,
\* returned with the model the caller set
C21_Witness ==
    /\ pPc = "prepared"
    /\ pTx.subAccountId = "sub1"
    /\ pTx.model.kind = "stake.delegate"
    /\ pPrepared[1].model.kind = "stake.delegate"
    /\ pPrepared[1].model.commandDescriptor.command.kind = "token.transfer"

IsStakeSplit == pTx.subAccountId = "" /\ pTx.model.kind = "stake.split"

\* C22: the descriptor returned for a stake split has an amount-required
\* error under "amount" when the amount of the draft is <= 0 and an
\* invalid-address error under "stakeAccAddr" when the stake account address
\* of the draft is malformed.
C22_SplitReportsErrors ==
    (pPc = "prepared" /\ IsStakeSplit) =>
        /\ pTx.amount <= 0 => pResult.errors.amount.name = "AmountRequired"
        /\ ~isValidBase58Address(pTx.model.uiState.stakeAccAddr) =>
              pResult.errors.stakeAccAddr.name = "InvalidAddress"

\* C23: when main() resumes with a denied request of the seed identifier
\* path, the mode is skipped and the scan goes on with the next mode
\* without failing; when it resumes with a hard transport error of an
\* address request, of the seed identifier path or of an account path, the
\* scan ends with the error, probes nothing more and the connection is not
\* left open.
C23_AddressErrorPolicy ==
    [][/\ scanPc = "seedAddrDenied" =>
             /\ scanPc' = "modeLoop"
             /\ outcome' = None
             /\ transport' = transport
       /\ scanPc \in {"seedAddrHard", "idxAddrHard"} =>
             /\ scanPc' = "done"
             /\ outcome' = "error"
             /\ transport' # "open"
             /\ probed' = probed
      ]_vars

\* Rent exemption of the account the prepared command creates, 0 when it
\* creates none.
StructuralCost ==
    LET c == pResult.command IN
    CASE c.kind = "token.transfer" ->
             IF c.recipientDescriptor.shouldCreateAsAssociatedTokenAccount
             THEN pApi.getAssocTokenAccMinNativeBalance ELSE 0
      [] c.kind = "token.createATA" -> pApi.getAssocTokenAccMinNativeBalance
      [] c.kind \in {"stake.createAccount", "stake.split"} ->
             pApi.getStakeAccountMinimumBalanceForRentExemption
      [] OTHER -> 0

\* C24: whatever the operation kind, the fee of the descriptor that prepare
\* returns is the per-signature network fee plus the rent exemption of the
\* account the command creates, if it creates one; it is never lower than
\* the per-signature fee.
C24_FeeIsNetworkFeePlusStructuralCost ==
    pPc = "prepared" =>
        /\ pResult.fee = pApi.lamportsPerSignature + StructuralCost
        /\ pResult.fee >= pApi.lamportsPerSignature

====
